---- MODULE Spec2Model ----
(***************************************************************************)
(* The NDJSON stream bridge of apps/api/src/index.ts (handleChatStream).   *)
(*                                                                         *)
(* Two requests are served by one worker isolate.  Each request has its    *)
(* own producer task (the start() callback of its ReadableStream), its own *)
(* AbortController, timer, line-carry buffer and flags; the TextDecoder    *)
(* `decoder` is a module-level object of the isolate.                      *)
(*                                                                         *)
(* Text is modelled as a sequence of lexemes.  The upstream byte stream is *)
(* a sequence of byte groups: every lexeme is one group, except the        *)
(* non-ASCII lexeme EAcute which is the two groups Lead, Cont on the wire, *)
(* so that a chunk boundary can fall inside a multi-byte character.        *)
(***************************************************************************)
EXTENDS Integers, Sequences, FiniteSets, TLC

\* The requests the isolate serves concurrently.
Reqs == {"r1", "r2"}

\* Bound: the number of lines all upstream bodies together may carry.
MaxLines == 2

\* JavaScript's undefined (an absent property, an unset variable).
Undefined == "undefined"

(***************************************************************************)
(* Lexemes of the upstream text.                                           *)
(***************************************************************************)
LF == "\n"
SP == " "
Marker == "data:"
Sentinel == "[DONE]"
LBrace == "{"
RBrace == "}"
\* The two bytes of a two-byte UTF-8 character, the character itself and
\* the replacement character the decoder substitutes for a malformed byte.
Lead == "0xC3"
Cont == "0xA9"
EAcute == "U+00E9"
Replacement == "U+FFFD"

DeltaType == "response.output_text.delta"
CompletedType == "response.completed"
DefaultModel == "gpt-4.1-mini"

(***************************************************************************)
(* StreamEvent (index.ts 73-78) and emit (83-85): the controller's queue   *)
(* is the sequence of events enqueued.  JSON.stringify drops a property    *)
(* whose value is undefined, so {type:"done"} and                          *)
(* {type:"done", usage: undefined} are the same line on the wire.          *)
(***************************************************************************)
MetaEvt(requestId, model) == [type |-> "meta", requestId |-> requestId, model |-> model]
DeltaEvt(text) == [type |-> "delta", text |-> text]
UsageEvt(usage) == [type |-> "usage", usage |-> usage]
ErrorEvt(message) == [type |-> "error", message |-> message]
DoneEvt(usage) == [type |-> "done", usage |-> usage]

emit(queue, evt) == Append(queue, evt)

(***************************************************************************)
(* decoder.decode(value, {stream: true}) (index.ts 81, 163): the UTF-8     *)
(* decoder keeps an incomplete multi-byte sequence between calls.  pending *)
(* is <<>> or <<Lead>>.  A lead byte followed by anything but its          *)
(* continuation yields U+FFFD and the byte is decoded again; a stray       *)
(* continuation byte yields U+FFFD.                                        *)
(***************************************************************************)
RECURSIVE decodeFrom(_, _, _)
decodeFrom(value, pending, acc) ==
  IF value = <<>> THEN [text |-> acc, pending |-> pending]
  ELSE LET b == Head(value) IN
    IF pending = <<>>
    THEN IF b = Lead THEN decodeFrom(Tail(value), <<Lead>>, acc)
         ELSE IF b = Cont THEN decodeFrom(Tail(value), <<>>, Append(acc, Replacement))
         ELSE decodeFrom(Tail(value), <<>>, Append(acc, b))
    ELSE IF b = Cont THEN decodeFrom(Tail(value), <<>>, Append(acc, EAcute))
         ELSE decodeFrom(value, <<>>, Append(acc, Replacement))

decode(value, pending) == decodeFrom(value, pending, <<>>)

(***************************************************************************)
(* String helpers: split("\n"), trim(), startsWith("data:"), slice(5).     *)
(***************************************************************************)
RECURSIVE splitFrom(_, _, _)
splitFrom(s, cur, parts) ==
  IF s = <<>> THEN Append(parts, cur)
  ELSE IF Head(s) = LF THEN splitFrom(Tail(s), <<>>, Append(parts, cur))
  ELSE splitFrom(Tail(s), Append(cur, Head(s)), parts)

split(s) == splitFrom(s, <<>>, <<>>)

RECURSIVE trimStart(_)
trimStart(s) == IF s # <<>> /\ Head(s) \in {SP, LF} THEN trimStart(Tail(s)) ELSE s

RECURSIVE trimEnd(_)
trimEnd(s) ==
  IF s # <<>> /\ s[Len(s)] \in {SP, LF} THEN trimEnd(SubSeq(s, 1, Len(s) - 1)) ELSE s

\* A trim that strips nothing.
trimNothing(s) == s

trim(s) == trimEnd(trimStart(s))

\* A test that takes any non-empty line for a data line.
nonEmptyLine(line) == line # <<>>

startsWithMarker(line) == line # <<>> /\ Head(line) = Marker

sliceMarker(line) == Tail(line)

(***************************************************************************)
(* splitLines (index.ts 87-92): the complete lines of carry.buf + chunk    *)
(* and the unterminated remainder, which becomes the new carry.buf.        *)
(***************************************************************************)
splitLines(chunk, buf) ==
  LET parts == split(buf \o chunk)
  IN [lines |-> SubSeq(parts, 1, Len(parts) - 1), buf |-> parts[Len(parts)]]

(***************************************************************************)
(* JSON.parse (index.ts 172, 208).  The text of a JSON object is           *)
(* LBrace, one lexeme abbreviating the object's members, RBrace; any other *)
(* text is a SyntaxError.  Records gives the object each lexeme            *)
(* abbreviates, its absent members being Undefined.  The lexeme EAcute     *)
(* abbreviates a text-delta record whose text is the non-ASCII character,  *)
(* Replacement the same record with the character replaced by U+FFFD.      *)
(***************************************************************************)
NoResponse == [usage |-> Undefined, output |-> <<>>]

TextDelta(text) == [type |-> DeltaType, delta |-> text, response |-> NoResponse]

Completed(usage, output) ==
  [type |-> CompletedType, delta |-> Undefined,
   response |-> [usage |-> usage, output |-> output]]

\* An output list whose first message-typed entry follows a reasoning entry
\* and carries the text fragments "Hel", "lo" around a refusal fragment.
OutputHello ==
  << [type |-> "reasoning", content |-> <<>>],
     [type |-> "message",
      content |-> << [type |-> "output_text", text |-> "Hel"],
                     [type |-> "refusal", text |-> "no"],
                     [type |-> "output_text", text |-> "lo"] >>],
     [type |-> "message",
      content |-> << [type |-> "output_text", text |-> "again"] >>] >>

\* An output list whose only message entry carries no text fragment.
OutputRefusal ==
  << [type |-> "message", content |-> << [type |-> "refusal", text |-> "no"] >>] >>

Members ==
  {"dA", "dB", "dEmpty", EAcute, Replacement, "cU1", "cU2", "cText", "cQuiet", "created"}

Records ==
  [m \in Members |->
     CASE m = "dA" -> TextDelta("A")
       [] m = "dB" -> TextDelta("B")
       [] m = "dEmpty" -> TextDelta("")
       [] m = EAcute -> TextDelta(EAcute)
       [] m = Replacement -> TextDelta(Replacement)
       [] m = "cU1" -> Completed("U1", OutputHello)
       [] m = "cU2" -> Completed("U2", <<>>)
       [] m = "cText" -> Completed(Undefined, OutputHello)
       [] m = "cQuiet" -> Completed("U2", OutputRefusal)
       [] m = "created" -> [type |-> "response.created", delta |-> Undefined,
                            response |-> NoResponse]]

JSONParse(data) ==
  IF Len(data) = 3 /\ data[1] = LBrace /\ data[3] = RBrace /\ data[2] \in Members
  THEN [ok |-> TRUE, evt |-> Records[data[2]]]
  ELSE [ok |-> FALSE, evt |-> TextDelta(Undefined)]

(***************************************************************************)
(* extractFinalTextFromCompleted (index.ts 94-103): the text-typed         *)
(* fragments of the first message-typed output entry, joined in order.     *)
(***************************************************************************)
RECURSIVE find(_, _)
find(output, type) ==
  IF output = <<>> THEN <<>>
  ELSE IF Head(output).type = type THEN <<Head(output)>>
  ELSE find(Tail(output), type)

RECURSIVE joinTexts(_)
joinTexts(content) ==
  IF content = <<>> THEN ""
  ELSE IF Head(content).type = "output_text"
       THEN Head(content).text \o joinTexts(Tail(content))
       ELSE joinTexts(Tail(content))

\* The text of the first output entry, whatever its type.
textOfFirstEntry(evt) ==
  IF evt.response.output = <<>> THEN "" ELSE joinTexts(evt.response.output[1].content)

extractFinalTextFromCompleted(evt) ==
  LET msg == find(evt.response.output, "message")
  IN IF msg = <<>> THEN "" ELSE joinTexts(msg[1].content)

(***************************************************************************)
(* The producer's translation state for one request: the line-carry        *)
(* buffer, the text-seen flag, the last usage and the events enqueued.     *)
(***************************************************************************)
NewBridge(queue) ==
  [buf |-> <<>>, sawAnyText |-> FALSE, finalUsage |-> Undefined, out |-> queue]

\* The loop body without the guard on an empty delta text.
processLineUnguarded(b, line) ==
  IF ~startsWithMarker(line) THEN b
  ELSE LET data == trim(sliceMarker(line)) IN
    IF data = <<>> \/ data = <<Sentinel>> THEN b
    ELSE LET p == JSONParse(data) IN
      IF ~p.ok
      THEN [b EXCEPT !.out = emit(@, ErrorEvt("Bad upstream JSON"))]
      ELSE LET evt == p.evt IN
        IF evt.type = DeltaType /\ evt.delta # Undefined
        THEN [b EXCEPT !.sawAnyText = TRUE, !.out = emit(@, DeltaEvt(evt.delta))]
        ELSE IF evt.type = CompletedType
        THEN LET usage == evt.response.usage
                 b1 == [b EXCEPT !.finalUsage = usage,
                                 !.out = IF usage # Undefined
                                         THEN emit(@, UsageEvt(usage)) ELSE @]
                 finalText == extractFinalTextFromCompleted(evt)
             IN IF ~b.sawAnyText /\ finalText # ""
                THEN [b1 EXCEPT !.sawAnyText = TRUE,
                                !.out = emit(@, DeltaEvt(finalText))]
                ELSE b1
        ELSE b

\* The loop body with the reconstructed text written before the usage.
processLineTextFirst(b, line) ==
  IF ~startsWithMarker(line) THEN b
  ELSE LET data == trim(sliceMarker(line)) IN
    IF data = <<>> \/ data = <<Sentinel>> THEN b
    ELSE LET p == JSONParse(data) IN
      IF ~p.ok
      THEN [b EXCEPT !.out = emit(@, ErrorEvt("Bad upstream JSON"))]
      ELSE LET evt == p.evt IN
        IF evt.type = DeltaType /\ evt.delta # Undefined
        THEN IF evt.delta # ""
             THEN [b EXCEPT !.sawAnyText = TRUE, !.out = emit(@, DeltaEvt(evt.delta))]
             ELSE b
        ELSE IF evt.type = CompletedType
        THEN LET usage == evt.response.usage
                 finalText == extractFinalTextFromCompleted(evt)
                 b1 == IF ~b.sawAnyText /\ finalText # ""
                       THEN [b EXCEPT !.sawAnyText = TRUE,
                                      !.out = emit(@, DeltaEvt(finalText))]
                       ELSE b
             IN [b1 EXCEPT !.finalUsage = usage,
                           !.out = IF usage # Undefined
                                   THEN emit(@, UsageEvt(usage)) ELSE @]
        ELSE b

\* The body of the `for (const line of lines)` loop (index.ts 166-198).
processLine(b, line) ==
  IF ~startsWithMarker(line) THEN b
  ELSE LET data == trim(sliceMarker(line)) IN
    IF data = <<>> \/ data = <<Sentinel>> THEN b
    ELSE LET p == JSONParse(data) IN
      IF ~p.ok
      THEN [b EXCEPT !.out = emit(@, ErrorEvt("Bad upstream JSON"))]
      ELSE LET evt == p.evt IN
        IF evt.type = DeltaType /\ evt.delta # Undefined
        THEN IF evt.delta # ""
             THEN [b EXCEPT !.sawAnyText = TRUE, !.out = emit(@, DeltaEvt(evt.delta))]
             ELSE b
        ELSE IF evt.type = CompletedType
        THEN LET usage == evt.response.usage
                 b1 == [b EXCEPT !.finalUsage = usage,
                                 !.out = IF usage # Undefined
                                         THEN emit(@, UsageEvt(usage)) ELSE @]
                 finalText == extractFinalTextFromCompleted(evt)
             IN IF ~b.sawAnyText /\ finalText # ""
                THEN [b1 EXCEPT !.sawAnyText = TRUE,
                                !.out = emit(@, DeltaEvt(finalText))]
                ELSE b1
        ELSE b

\* A loop that takes the lines of a chunk last first.
RECURSIVE linesLastFirst(_, _)
linesLastFirst(b, lines) ==
  IF lines = <<>> THEN b
  ELSE linesLastFirst(processLine(b, lines[Len(lines)]), SubSeq(lines, 1, Len(lines) - 1))

RECURSIVE processLines(_, _)
processLines(b, lines) ==
  IF lines = <<>> THEN b ELSE processLines(processLine(b, Head(lines)), Tail(lines))

\* A read loop whose text-seen flag is reset at every chunk.
processTextForgetful(b, text) ==
  LET s == splitLines(text, b.buf)
  IN processLines([b EXCEPT !.buf = s.buf, !.sawAnyText = FALSE], s.lines)

\* One iteration of the read loop for a chunk already decoded to text
\* (index.ts 164-198).
processText(b, text) ==
  LET s == splitLines(text, b.buf)
  IN processLines([b EXCEPT !.buf = s.buf], s.lines)

\* The handling of the residue left in carry.buf when the body is
\* exhausted (index.ts 201-220): only a completed record is translated,
\* the text-seen flag is not set and a SyntaxError is swallowed.
processResidue(b) ==
  LET line == trim(b.buf) IN
  IF line = <<>> \/ ~startsWithMarker(line) THEN b
  ELSE LET data == trim(sliceMarker(line)) IN
    IF data = <<>> \/ data = <<Sentinel>> THEN b
    ELSE LET p == JSONParse(data) IN
      IF ~p.ok THEN b
      ELSE IF p.evt.type = CompletedType
      THEN LET usage == p.evt.response.usage
               b1 == [b EXCEPT !.finalUsage = usage,
                               !.out = IF usage # Undefined
                                       THEN emit(@, UsageEvt(usage)) ELSE @]
               finalText == extractFinalTextFromCompleted(p.evt)
           IN IF ~b.sawAnyText /\ finalText # ""
              THEN [b1 EXCEPT !.out = emit(@, DeltaEvt(finalText))]
              ELSE b1
      ELSE b

\* index.ts 222-223: the terminal emit on the normal path.
finish(b) == [b EXCEPT !.out = emit(@, DoneEvt(b.finalUsage))]

\* A catch block that starts the queue over.
catchDropsQueue(b) ==
  [b EXCEPT !.out = <<ErrorEvt("Upstream exception"), DoneEvt(Undefined)>>]

\* A catch block that reports the exception and leaves it at that.
catchWithoutDone(b) == [b EXCEPT !.out = emit(@, ErrorEvt("Upstream exception"))]

\* index.ts 224-227: the catch block.
catchException(b) ==
  [b EXCEPT !.out = emit(emit(@, ErrorEvt("Upstream exception")), DoneEvt(Undefined))]

(***************************************************************************)
(* The inbound request bodies tried: not JSON (readJsonBody throws and the *)
(* handler falls back to {}), no prompt, a blank prompt, and a valid       *)
(* prompt.  Request r1 comes from the repository's own client, which sends *)
(* a requestId with the prompt (App.send, part_000 line 122); request r2   *)
(* comes from a client that sends the prompt alone.                        *)
(***************************************************************************)
NoBody == [json |-> FALSE, prompt |-> <<>>, requestId |-> Undefined]

InboundBodies(r) ==
  { NoBody,
    [json |-> TRUE, prompt |-> <<>>, requestId |-> "req-1"],
    [json |-> TRUE, prompt |-> <<SP>>, requestId |-> Undefined],
    IF r = "r1"
    THEN [json |-> TRUE, prompt |-> <<"hi">>, requestId |-> "req-1"]
    ELSE [json |-> TRUE, prompt |-> <<SP, "hi", SP>>, requestId |-> Undefined] }

\* index.ts 112-115.
promptOf(body) == IF body.json THEN body.prompt ELSE <<>>
requestIdOf(body) ==
  IF body.json /\ body.requestId # Undefined THEN body.requestId ELSE "randomUUID"
modelOf(e) == IF e.OPENAI_MODEL # "" THEN e.OPENAI_MODEL ELSE DefaultModel

\* The worker's bindings tried: no credential, a credential without a
\* model name, a credential with one.
NoKeyEnv == [OPENAI_API_KEY |-> "", OPENAI_MODEL |-> "gpt-x"]
DefaultModelEnv == [OPENAI_API_KEY |-> "sk-key", OPENAI_MODEL |-> ""]
CustomModelEnv == [OPENAI_API_KEY |-> "sk-key", OPENAI_MODEL |-> "gpt-x"]

(***************************************************************************)
(* The lines an upstream body is made of (without their newline).  In one  *)
(* run the upstreams draw their lines from one script:                     *)
(*   "text"  a text delta with a space after the marker, a text delta      *)
(*           whose text is a two-byte character, a truncated JSON payload  *)
(*           and a blank line;                                             *)
(*   "final" a completed record with usage and a message, a text delta     *)
(*           and the terminator sentinel;                                  *)
(*   "deltas" two text deltas written in one piece, a text delta with an   *)
(*           empty text, the completed record and an event-name line;      *)
(*   "quiet" a completed record whose message carries no text, one         *)
(*           without usage, a record of another type and a data line with  *)
(*           a blank payload.                                              *)
(***************************************************************************)
DeltaLine == <<Marker, SP, LBrace, "dA", RBrace>>
WideLine == <<Marker, LBrace, Lead, Cont, RBrace>>
BadLine == <<Marker, LBrace, "dA">>
BlankLine == <<>>
CompletedLine == <<Marker, LBrace, "cU1", RBrace>>
SentinelLine == <<Marker, Sentinel>>
TwoDeltas == <<Marker, SP, LBrace, "dA", RBrace, LF, Marker, LBrace, "dB", RBrace>>
EmptyDeltaLine == <<Marker, LBrace, "dEmpty", RBrace>>
EventLine == <<"event:", SP, CompletedType>>
QuietCompletedLine == <<Marker, LBrace, "cQuiet", RBrace>>
NoUsageCompletedLine == <<Marker, LBrace, "cText", RBrace>>
CreatedLine == <<Marker, LBrace, "created", RBrace>>
EmptyDataLine == <<Marker, SP>>

\* The runs tried: the model name reaches nothing but the meta event, so
\* each script is run under one of the bindings that hold a credential.
Runs ==
  { [env |-> NoKeyEnv, script |-> "text"],
    [env |-> DefaultModelEnv, script |-> "text"],
    [env |-> CustomModelEnv, script |-> "final"],
    [env |-> DefaultModelEnv, script |-> "deltas"],
    [env |-> CustomModelEnv, script |-> "quiet"] }

UpstreamLines(s) ==
  CASE s = "text" -> {DeltaLine, WideLine, BadLine, BlankLine}
    [] s = "final" -> {CompletedLine, DeltaLine, SentinelLine}
    [] s = "deltas" -> {TwoDeltas, EmptyDeltaLine, CompletedLine, EventLine}
    [] s = "quiet" -> {QuietCompletedLine, NoUsageCompletedLine, CreatedLine, EmptyDataLine}

VARIABLES
  env,        \* the worker's bindings: OPENAI_API_KEY, OPENAI_MODEL
  script,     \* the script the upstreams draw their lines from
  decoder,    \* the module-level TextDecoder: its pending bytes
  pc,         \* where each request's handler / producer is suspended
  request,    \* the inbound body of each request
  response,   \* the status of the Response handed back, "none" before
  stream,     \* each ReadableStream: "none", "readable", "closed"
  bridge,     \* carry.buf, sawAnyText, finalUsage and the events enqueued
  timeout,    \* each setTimeout timer: "unset", "armed", "fired", "cleared"
  fetches,    \* the number of upstream fetch calls made for each request
  upstream,   \* how each upstream fetch settled: "pending", "ok", ...
  thrown,     \* whether an await of the producer has rejected
  wire,       \* upstream body bytes sent and not yet read
  sent,       \* the upstream body bytes sent on a connection not torn down
  cut,        \* whether the body sent so far ends in an unterminated line
  lines,      \* the number of pieces the upstreams have sent, all bodies together
  alone       \* each request's translation state had it a decoder of its own

(***************************************************************************)
(* The browser client (part_000): the React state of App, the locals of    *)
(* the send() call in progress and the response it reads.                  *)
(***************************************************************************)
VARIABLES
  app,        \* busy, status, error, usage, meta, the assistant messages'
              \* contents (one per send) and the pending status timer
  call,       \* send(): where it is suspended, buf, its decoder, sends made
  res,        \* the response of /api/chat/stream: bytes to come and bytes read
  applied     \* the events send() has applied since it was called

clientVars == << app, call, res, applied >>

\* part_000 30-35: the state App is mounted with.
AppReady ==
  [busy |-> FALSE, status |-> "Ready", error |-> "", usage |-> "null",
   meta |-> [requestId |-> Undefined, model |-> Undefined],
   messages |-> <<>>, readyTimer |-> FALSE]

CallIdle == [pc |-> "idle", buf |-> <<>>, pending |-> <<>>, sends |-> 0, exit |-> "none"]

NoRes == [ok |-> FALSE, body |-> <<>>, got |-> <<>>]

vars == << env, script, decoder, pc, request, response, stream, bridge, timeout,
           fetches, upstream, thrown, wire, sent, cut, lines, alone >>

Init ==
  /\ \E run \in Runs : env = run.env /\ script = run.script
  /\ decoder = <<>>
  /\ pc = [r \in Reqs |-> "idle"]
  /\ request = [r \in Reqs |-> NoBody]
  /\ response = [r \in Reqs |-> "none"]
  /\ stream = [r \in Reqs |-> "none"]
  /\ bridge = [r \in Reqs |-> NewBridge(<<>>)]
  /\ timeout = [r \in Reqs |-> "unset"]
  /\ fetches = [r \in Reqs |-> 0]
  /\ upstream = [r \in Reqs |-> "none"]
  /\ thrown = [r \in Reqs |-> FALSE]
  /\ wire = [r \in Reqs |-> <<>>]
  /\ sent = [r \in Reqs |-> <<>>]
  /\ cut = [r \in Reqs |-> FALSE]
  /\ lines = 0
  /\ alone = [r \in Reqs |-> [b |-> NewBridge(<<>>), pending |-> <<>>]]
  /\ app = AppReady
  /\ call = CallIdle
  /\ res = NoRes
  /\ applied = <<>>

(***************************************************************************)
(* handleChatStream, up to its first await (index.ts 109-112): a request   *)
(* arrives with its body, the credential is checked, then the body is      *)
(* read.                                                                   *)
(***************************************************************************)
HandleChatStream(r) ==
  /\ pc[r] = "idle"
  /\ \E body \in InboundBodies(r) : request' = [request EXCEPT ![r] = body]
  /\ IF env.OPENAI_API_KEY = ""
     THEN /\ response' = [response EXCEPT ![r] = "500"]
          /\ pc' = [pc EXCEPT ![r] = "end"]
     ELSE /\ pc' = [pc EXCEPT ![r] = "readJsonBody"]
          /\ UNCHANGED response
  /\ UNCHANGED clientVars
  /\ UNCHANGED << env, script, thrown, lines, decoder, stream, bridge, timeout,
                  fetches, upstream, wire, sent, cut, alone >>

\* A start() that awaits the fetch before it enqueues anything.
startQueueEmpty(r) == <<>>

\* What start() enqueues before its first await (index.ts 122).
startQueue(r) == emit(<<>>, MetaEvt(requestIdOf(request[r]), modelOf(env)))

\* A handler that awaits the producer: nothing is returned at this point.
responseWithheld == "none"

\* The response handleChatStream returns once the stream is constructed
\* (index.ts 234-239): start() has run to its first await by then.
streamResponse == "200"

\* A producer that arms no timer.
timerNeverArmed == "unset"

\* setTimeout(() => abort.abort("upstream_timeout"), 60_000) (index.ts 125).
setTimeout == "armed"

(***************************************************************************)
(* handleChatStream after the inbound body is read (index.ts 112-239):     *)
(* the prompt check, then the construction of the stream, whose start()    *)
(* runs synchronously to its first await (the fetch), then the return of   *)
(* the Response.                                                           *)
(***************************************************************************)
ReadJsonBodySettles(r) ==
  /\ pc[r] = "readJsonBody"
  /\ IF trim(promptOf(request[r])) = <<>>
     THEN /\ response' = [response EXCEPT ![r] = "400"]
          /\ pc' = [pc EXCEPT ![r] = "end"]
          /\ UNCHANGED << stream, bridge, timeout, fetches, upstream, alone >>
     ELSE /\ stream' = [stream EXCEPT ![r] = "readable"]
          /\ bridge' = [bridge EXCEPT ![r] = NewBridge(startQueue(r))]
          /\ alone' = [alone EXCEPT ![r] = [b |-> NewBridge(startQueue(r)), pending |-> <<>>]]
          /\ timeout' = [timeout EXCEPT ![r] = setTimeout]
          /\ fetches' = [fetches EXCEPT ![r] = @ + 1]
          /\ upstream' = [upstream EXCEPT ![r] = "pending"]
          /\ pc' = [pc EXCEPT ![r] = "fetch"]
          /\ response' = [response EXCEPT ![r] = streamResponse]
  /\ UNCHANGED clientVars
  /\ UNCHANGED << env, script, thrown, lines, decoder, request, wire, sent, cut >>

\* The finally block (index.ts 228-230).
\* A finally block that leaves the timer as it is.
timerLeftArmed(t) == t

clearTimeout(t) == IF t = "armed" THEN "cleared" ELSE t

\* The producer returns: the carry buffer goes out of scope and the
\* upstream connection is released with whatever it had not delivered.
dropCarry(b) == [b EXCEPT !.buf = <<>>]

\* controller.close() and the return through finally on the paths that end
\* normally (index.ts 146-147, 153-154, 223, 228-230).
CloseWith(r, b, a) ==
  /\ bridge' = [bridge EXCEPT ![r] = dropCarry(b)]
  /\ alone' = [alone EXCEPT ![r] = [b |-> dropCarry(a), pending |-> <<>>]]
  /\ stream' = [stream EXCEPT ![r] = "closed"]
  /\ timeout' = [timeout EXCEPT ![r] = clearTimeout(@)]
  /\ pc' = [pc EXCEPT ![r] = "end"]
  /\ wire' = [wire EXCEPT ![r] = <<>>]

\* The catch block and finally (index.ts 224-230), entered by the rejection
\* of the await the producer is suspended at.
Catch(r) ==
  /\ CloseWith(r, catchException(bridge[r]), catchException(alone[r].b))
  /\ sent' = [sent EXCEPT ![r] = <<>>]
  /\ cut' = [cut EXCEPT ![r] = FALSE]
  /\ thrown' = [thrown EXCEPT ![r] = TRUE]

\* An early exit without its return: the producer runs on to the terminal
\* emit of the normal path.
earlyExitFallsThrough(b, message) ==
  [b EXCEPT !.out = emit(emit(emit(@, ErrorEvt(message)), DoneEvt(Undefined)),
                         DoneEvt(b.finalUsage))]

\* An early exit that reports nothing.
earlyExitSilent(b, message) == [b EXCEPT !.out = emit(@, DoneEvt(Undefined))]

\* index.ts 142-155: the two early exits of the producer.
earlyExit(b, message) ==
  [b EXCEPT !.out = emit(emit(@, ErrorEvt(message)), DoneEvt(Undefined))]

Awaiting(r) == pc[r] \in {"fetch", "text", "read"}

(***************************************************************************)
(* The timer's callback (index.ts 125): abort.abort() rejects the await    *)
(* the producer is suspended at (the fetch was given abort.signal, line    *)
(* 134), and the rejection's continuation, the catch block, runs in the    *)
(* microtask checkpoint that follows the callback.                         *)
(***************************************************************************)
TimeoutFires(r) ==
  /\ timeout[r] = "armed"
  /\ Awaiting(r)
  /\ timeout' = [timeout EXCEPT ![r] = "fired"]
  /\ bridge' = [bridge EXCEPT ![r] = dropCarry(catchException(bridge[r]))]
  /\ alone' = [alone EXCEPT ![r] = [b |-> dropCarry(catchException(alone[r].b)),
                                    pending |-> <<>>]]
  /\ stream' = [stream EXCEPT ![r] = "closed"]
  /\ pc' = [pc EXCEPT ![r] = "end"]
  /\ wire' = [wire EXCEPT ![r] = <<>>]
  /\ sent' = [sent EXCEPT ![r] = <<>>]
  /\ cut' = [cut EXCEPT ![r] = FALSE]
  /\ thrown' = [thrown EXCEPT ![r] = TRUE]
  /\ UNCHANGED clientVars
  /\ UNCHANGED << env, script, lines, decoder, request, response, fetches, upstream >>

\* await fetch(...) resolves (index.ts 132-157).
FetchResolves(r) ==
  /\ pc[r] = "fetch"
  /\ \E how \in {"ok", "not ok", "no body"} :
       /\ upstream' = [upstream EXCEPT ![r] = how]
       /\ CASE how = "ok" ->
                 /\ pc' = [pc EXCEPT ![r] = "read"]
                 /\ UNCHANGED << stream, bridge, timeout, alone, wire >>
            [] how = "not ok" ->
                 /\ pc' = [pc EXCEPT ![r] = "text"]
                 /\ UNCHANGED << stream, bridge, timeout, alone, wire >>
            [] how = "no body" ->
                 CloseWith(r, earlyExit(bridge[r], "Upstream body is null"),
                           earlyExit(alone[r].b, "Upstream body is null"))
  /\ UNCHANGED clientVars
  /\ UNCHANGED << env, script, thrown, lines, decoder, request, response, fetches, sent, cut >>

\* await fetch(...) rejects: the connection fails.
FetchRejects(r) ==
  /\ pc[r] = "fetch"
  /\ upstream' = [upstream EXCEPT ![r] = "rejected"]
  /\ Catch(r)
  /\ UNCHANGED clientVars
  /\ UNCHANGED << env, script, lines, decoder, request, response, fetches >>

\* await upstream.text() resolves on the non-success path (index.ts 143-147).
TextResolves(r) ==
  /\ pc[r] = "text"
  /\ CloseWith(r, earlyExit(bridge[r], "OpenAI error"), earlyExit(alone[r].b, "OpenAI error"))
  /\ UNCHANGED clientVars
  /\ UNCHANGED << env, script, thrown, lines, decoder, request, response, fetches, upstream, sent, cut >>

\* await upstream.text() rejects.
TextRejects(r) ==
  /\ pc[r] = "text"
  /\ Catch(r)
  /\ UNCHANGED clientVars
  /\ UNCHANGED << env, script, lines, decoder, request, response, fetches, upstream >>

\* The upstream sends one more line of its body, newline-terminated or, as
\* the last thing it sends, not.
UpstreamSends(r) ==
  /\ pc[r] = "read"
  /\ ~cut[r]
  /\ lines < MaxLines
  /\ \E line \in UpstreamLines(script), terminated \in BOOLEAN :
       /\ terminated \/ line # <<>>
       /\ LET bytes == IF terminated THEN Append(line, LF) ELSE line IN
          /\ wire' = [wire EXCEPT ![r] = @ \o bytes]
          /\ sent' = [sent EXCEPT ![r] = @ \o bytes]
       /\ cut' = [cut EXCEPT ![r] = ~terminated]
  /\ lines' = lines + 1
  /\ UNCHANGED clientVars
  /\ UNCHANGED << env, script, thrown, decoder, pc, request, response, stream, bridge,
                  timeout, fetches, upstream, alone >>

\* await reader.read() resolves with a chunk: any non-empty prefix of the
\* bytes on the wire (index.ts 160-198).
ReadChunk(r) ==
  /\ pc[r] = "read"
  /\ \E k \in 1..Len(wire[r]) :
       LET value == SubSeq(wire[r], 1, k)
           d == decode(value, decoder)
           own == decode(value, alone[r].pending)
       IN /\ wire' = [wire EXCEPT ![r] = SubSeq(@, k + 1, Len(@))]
          /\ decoder' = d.pending
          /\ bridge' = [bridge EXCEPT ![r] = processText(@, d.text)]
          /\ alone' = [alone EXCEPT ![r] = [b |-> processText(@.b, own.text),
                                            pending |-> own.pending]]
  /\ UNCHANGED clientVars
  /\ UNCHANGED << env, script, thrown, lines, pc, request, response, stream, timeout, fetches,
                  upstream, sent, cut >>

\* await reader.read() resolves with done: the body is exhausted
\* (index.ts 161, 201-223).
ReadDone(r) ==
  /\ pc[r] = "read"
  /\ wire[r] = <<>>
  /\ CloseWith(r, finish(processResidue(bridge[r])), finish(processResidue(alone[r].b)))
  /\ UNCHANGED clientVars
  /\ UNCHANGED << env, script, thrown, lines, decoder, request, response, fetches, upstream, sent, cut >>

\* await reader.read() rejects: the connection fails.
ReadRejects(r) ==
  /\ pc[r] = "read"
  /\ Catch(r)
  /\ UNCHANGED clientVars
  /\ UNCHANGED << env, script, lines, decoder, request, response, fetches, upstream >>

Next ==
  \E r \in Reqs :
    \/ HandleChatStream(r)
    \/ ReadJsonBodySettles(r)
    \/ TimeoutFires(r)
    \/ FetchResolves(r)
    \/ FetchRejects(r)
    \/ TextResolves(r)
    \/ TextRejects(r)
    \/ UpstreamSends(r)
    \/ ReadChunk(r)
    \/ ReadDone(r)
    \/ ReadRejects(r)

Spec == Init /\ [][Next]_vars

\* The runtime runs a timer that is due.
FairSpec == Spec /\ \A r \in Reqs : WF_vars(TimeoutFires(r))

(***************************************************************************)
(* The claims.                                                             *)
(***************************************************************************)
out(r) == bridge[r].out

last(q) == q[Len(q)]

RECURSIVE countType(_, _)
countType(q, type) ==
  IF q = <<>> THEN 0
  ELSE (IF Head(q).type = type THEN 1 ELSE 0) + countType(Tail(q), type)

\* The producer of r ended by exhausting the upstream body.
Exhausted(r) == stream[r] = "closed" /\ upstream[r] = "ok" /\ ~thrown[r]

\* C1: once a request has passed validation, the events enqueued on its
\* stream start with the meta event of that request (its correlation id,
\* the selected model), no other meta event follows, and once the stream is
\* closed the last event is done.
C1_MetaFirstDoneLast ==
  \A r \in Reqs :
    stream[r] # "none" =>
      /\ out(r) # <<>>
      /\ out(r)[1] = MetaEvt(requestIdOf(request[r]), modelOf(env))
      /\ countType(out(r), "meta") = 1
      /\ stream[r] = "closed" => last(out(r)).type = "done"

\* A stream closed after a delta and a usage event reached it.
C1_Witness ==
  \E r \in Reqs :
    /\ stream[r] = "closed"
    /\ countType(out(r), "delta") > 0
    /\ countType(out(r), "usage") > 0

\* C2: a closed stream holds exactly one done event, and it is the last
\* event; a stream not yet closed holds none.  So no path closes without
\* done, none writes done twice and nothing is written after done.
C2_ExactlyOneDone ==
  \A r \in Reqs :
    /\ stream[r] = "closed" =>
         countType(out(r), "done") = 1 /\ last(out(r)).type = "done"
    /\ stream[r] # "closed" => countType(out(r), "done") = 0

\* Both streams closed, one through an early exit, one through the normal
\* path with usage.
C2_Witness ==
  \E r, q \in Reqs :
    /\ stream[r] = "closed" /\ upstream[r] = "no body"
    /\ Exhausted(q) /\ last(out(q)) = DoneEvt("U1")

RECURSIVE countEvt(_, _)
countEvt(q, evt) ==
  IF q = <<>> THEN 0 ELSE (IF Head(q) = evt THEN 1 ELSE 0) + countEvt(Tail(q), evt)

\* The last two events of a queue.
lastTwo(q) == SubSeq(q, Len(q) - 1, Len(q))

\* C3: every stream handed out is eventually closed, whatever the upstream
\* does or fails to do; a timer that fired has closed its stream with one
\* error event for the abort, followed by done; and once a stream is closed nothing more
\* is enqueued on it and its timer does not change state any more.
C3_EventuallyCloses ==
  /\ \A r \in Reqs : (stream[r] = "readable") ~> (stream[r] = "closed")
  /\ [](\A r \in Reqs :
          timeout[r] = "fired" =>
            /\ stream[r] = "closed"
            /\ lastTwo(out(r)) = <<ErrorEvt("Upstream exception"), DoneEvt(Undefined)>>
            /\ countEvt(out(r), ErrorEvt("Upstream exception")) = 1)
  /\ [][\A r \in Reqs :
          stream[r] = "closed" => out(r)' = out(r) /\ timeout'[r] = timeout[r]]_vars

\* A stream the timer closed while its producer awaited the next chunk,
\* after a delta had been written.
C3_Witness ==
  \E r \in Reqs :
    /\ timeout[r] = "fired"
    /\ stream[r] = "closed"
    /\ upstream[r] = "ok"
    /\ countType(out(r), "delta") = 1

\* C4 as stated: a request suspended at any await already has its response,
\* and an upstream fetch that has settled finds the response returned.
C4_Original ==
  \A r \in Reqs :
    /\ pc[r] \in {"readJsonBody", "fetch", "text", "read"} => response[r] # "none"
    /\ upstream[r] \notin {"none", "pending"} => response[r] = "200"

\* C4, amended: from the moment the upstream fetch is issued the response
\* has been returned, so it is returned before the fetch settles and before
\* any upstream data arrives; the one await that precedes the response is
\* the read of the inbound body, during which no stream exists, no timer
\* is armed and no upstream call has been made.
C4_ResponseBeforeUpstream ==
  \A r \in Reqs :
    /\ fetches[r] > 0 => response[r] = "200"
    /\ upstream[r] \notin {"none", "pending"} => response[r] = "200"
    /\ (response[r] = "none" /\ pc[r] # "idle") =>
         /\ pc[r] = "readJsonBody"
         /\ stream[r] = "none" /\ timeout[r] = "unset" /\ fetches[r] = 0

\* The response is out while the upstream fetch is still pending.
C4_Witness ==
  \E r \in Reqs :
    response[r] = "200" /\ upstream[r] = "pending" /\ out(r) = startQueue(r)

\* C8: once an await of the producer has rejected (the fetch, the read of
\* the error body, a read of the body, or any of them through the abort),
\* the stream is closed, the producer has ended, the queue ends with the
\* one error event of that exception followed by done, and the response
\* handed to the caller is untouched.
C8_ExceptionCaught ==
  \A r \in Reqs :
    thrown[r] =>
      /\ stream[r] = "closed" /\ pc[r] = "end"
      /\ lastTwo(out(r)) = <<ErrorEvt("Upstream exception"), DoneEvt(Undefined)>>
      /\ countEvt(out(r), ErrorEvt("Upstream exception")) = 1
      /\ response[r] = "200"

\* A read of the body rejected without the timer, after a delta was written.
C8_Witness ==
  \E r \in Reqs :
    /\ thrown[r] /\ timeout[r] = "cleared" /\ upstream[r] = "ok"
    /\ countType(out(r), "delta") = 1

\* C9: when the upstream answers with a non-success status or without a
\* body, one fetch was made, nothing but meta is enqueued while the error
\* body is read, and the closed stream holds exactly meta, one error event
\* and done without usage.
C9_NonSuccess ==
  \A r \in Reqs :
    upstream[r] \in {"not ok", "no body"} =>
      /\ fetches[r] = 1
      /\ stream[r] = "readable" => out(r) = startQueue(r)
      /\ stream[r] = "closed" =>
           /\ Len(out(r)) = 3
           /\ out(r)[1] = startQueue(r)[1]
           /\ out(r)[2].type = "error"
           /\ out(r)[3] = DoneEvt(Undefined)

\* A stream closed on a non-success status whose error body was read.
C9_Witness ==
  \E r \in Reqs :
    /\ upstream[r] = "not ok" /\ stream[r] = "closed"
    /\ out(r)[2] = ErrorEvt("OpenAI error")

\* A prompt that is empty once trimmed.
IsBlank(prompt) == \A i \in 1..Len(prompt) : prompt[i] = SP

\* C10: without the credential the response is 500, whatever the body;
\* with it, a body that is not JSON or whose prompt is blank gets 400 and
\* only a non-blank prompt gets the stream; a 400 or 500 response comes
\* with no stream, no event, no timer and no upstream call.
C10_Validation ==
  \A r \in Reqs :
    /\ (pc[r] # "idle" /\ env.OPENAI_API_KEY = "") => response[r] = "500"
    /\ (pc[r] = "end" /\ env.OPENAI_API_KEY # ""
          /\ (~request[r].json \/ IsBlank(request[r].prompt))) => response[r] = "400"
    /\ response[r] = "200" =>
         /\ env.OPENAI_API_KEY # ""
         /\ request[r].json /\ ~IsBlank(request[r].prompt)
    /\ response[r] \in {"400", "500"} =>
         /\ stream[r] = "none" /\ out(r) = <<>>
         /\ timeout[r] = "unset" /\ fetches[r] = 0 /\ upstream[r] = "none"

\* A prompt of whitespace was refused while the other request streams.
C10_Witness ==
  \E r, q \in Reqs :
    /\ response[r] = "400" /\ request[r].json /\ request[r].prompt = <<SP>>
    /\ stream[q] = "readable"

\* The events of a request whose whole upstream body arrives as one chunk
\* to a decoder of its own.
oneChunk(queue, body) ==
  finish(processResidue(processText(NewBridge(queue), decode(body, <<>>).text)))

\* C5 as stated: whatever the cut of the upstream body into chunks, a request
\* that read its body to the end has emitted the events it emits when the
\* body arrives as one chunk.
C5_ChunkInvariant ==
  \A r \in Reqs :
    Exhausted(r) => out(r) = oneChunk(startQueue(r), sent[r]).out

\* The last, unterminated line of a body is a data record of a recognized
\* kind: a text delta or a completed record.
Recognized(body) ==
  LET line == trim(splitLines(decode(body, <<>>).text, <<>>).buf) IN
  /\ startsWithMarker(line)
  /\ LET p == JSONParse(trim(sliceMarker(line)))
     IN p.ok /\ p.evt.type \in {DeltaType, CompletedType}

\* C6 as stated, for the requests whose decoding no other request has
\* disturbed: a body read to the end whose last line is an unterminated
\* data record of a recognized kind yields the events of that body followed
\* by a newline.
C6_TrailingLineProcessed ==
  \A r \in Reqs :
    (Exhausted(r) /\ cut[r] /\ out(r) = alone[r].b.out /\ Recognized(sent[r])) =>
      out(r) = oneChunk(startQueue(r), Append(sent[r], LF)).out

\* C7 as stated: the events a request has emitted are those it emits when
\* it runs alone, with a decoder no other request touches.
C7_NoSharedState ==
  \A r \in Reqs : out(r) = alone[r].b.out

\* C11 as stated: no outbound stream holds more than one usage event.
C11_AtMostOneUsage ==
  \A r \in Reqs : countType(out(r), "usage") <= 1

\* The usage carried by the most recent usage event of a queue.
RECURSIVE lastUsage(_)
lastUsage(queue) ==
  IF queue = <<>> THEN Undefined
  ELSE IF last(queue).type = "usage" THEN last(queue).usage
  ELSE lastUsage(SubSeq(queue, 1, Len(queue) - 1))

\* C12 as stated: on a closed stream that holds a usage event, done carries
\* the usage of the most recent usage event, whatever path closed it.
C12_DoneCarriesUsage ==
  \A r \in Reqs :
    (stream[r] = "closed" /\ countType(out(r), "usage") > 0) =>
      last(out(r)).usage = lastUsage(out(r))

\* A data line whose payload is not valid JSON.
Malformed(line) ==
  /\ startsWithMarker(line)
  /\ LET data == trim(sliceMarker(line))
     IN data # <<>> /\ data # <<Sentinel>> /\ ~JSONParse(data).ok

RECURSIVE countMalformed(_)
countMalformed(ls) ==
  IF ls = <<>> THEN 0
  ELSE (IF Malformed(Head(ls)) THEN 1 ELSE 0) + countMalformed(Tail(ls))

\* C13 as stated, for the requests whose decoding no other request has
\* disturbed: a body read to the end has produced one error event
\* 'Bad upstream JSON' for each of its malformed data lines, the
\* unterminated trailing line included, and ends with done.
C13_OneErrorPerBadLine ==
  \A r \in Reqs :
    (Exhausted(r) /\ out(r) = alone[r].b.out) =>
      /\ countEvt(out(r), ErrorEvt("Bad upstream JSON"))
           = countMalformed(split(decode(sent[r], <<>>).text))
      /\ last(out(r)).type = "done"

\* The upstream body of a request as decoded text cut at its newlines: its
\* terminated lines and the unterminated remainder.
bodyLines(r) == splitLines(decode(sent[r], <<>>).text, <<>>)

\* The record a data line carries.
recordOf(line) == JSONParse(trim(sliceMarker(line)))

IsDelta(line) ==
  /\ startsWithMarker(line) /\ recordOf(line).ok
  /\ recordOf(line).evt.type = DeltaType
  /\ recordOf(line).evt.delta \notin {Undefined, ""}

IsCompleted(line) ==
  /\ startsWithMarker(line) /\ recordOf(line).ok
  /\ recordOf(line).evt.type = CompletedType

usageOf(line) == recordOf(line).evt.response.usage

\* The body sent is n >= 1 text deltas with non-empty texts followed by one
\* completed record with usage, all newline-terminated.
DeltasThenCompleted(r) ==
  LET ls == bodyLines(r).lines IN
  /\ bodyLines(r).buf = <<>>
  /\ Len(ls) >= 2
  /\ \A i \in 1..(Len(ls) - 1) : IsDelta(ls[i])
  /\ IsCompleted(ls[Len(ls)]) /\ usageOf(ls[Len(ls)]) # Undefined

\* C14: a request that read to the end a body of n >= 1 non-empty text
\* deltas followed by one completed record with usage U has emitted exactly
\* meta, one delta per record in upstream order, usage(U), done(U).
C14_DeltasInOrder ==
  \A r \in Reqs :
    (Exhausted(r) /\ DeltasThenCompleted(r)) =>
      LET ls == bodyLines(r).lines
          n == Len(ls) - 1
          U == usageOf(ls[n + 1])
      IN out(r) = startQueue(r)
                    \o [i \in 1..n |-> DeltaEvt(recordOf(ls[i]).evt.delta)]
                    \o <<UsageEvt(U), DoneEvt(U)>>

\* Two deltas of different texts and the completed record were translated.
C14_Witness ==
  \E r \in Reqs :
    /\ Exhausted(r) /\ DeltasThenCompleted(r)
    /\ Len(out(r)) = 5
    /\ out(r)[2] = DeltaEvt("A") /\ out(r)[3] = DeltaEvt("B")
    /\ out(r)[4] = UsageEvt("U1")

\* Every line of the body of a request, the unterminated one included.
allLines(r) ==
  bodyLines(r).lines
    \o (IF bodyLines(r).buf = <<>> THEN <<>> ELSE <<trim(bodyLines(r).buf)>>)

\* The delta events of a queue, in order.
deltasOf(queue) == SelectSeq(queue, LAMBDA evt : evt.type = "delta")

\* The body sent holds no text delta with a non-empty text and exactly one
\* completed record, whose output list holds a message entry.
OnlyCompleted(r) ==
  LET ls == allLines(r) IN
  /\ \A i \in 1..Len(ls) : ~IsDelta(ls[i])
  /\ Cardinality({i \in 1..Len(ls) : IsCompleted(ls[i])}) = 1
  /\ \A i \in 1..Len(ls) :
       IsCompleted(ls[i]) =>
         recordOf(ls[i]).evt.response.output \in {OutputHello, OutputRefusal}

\* C15: a request that read to the end a body without non-empty text delta
\* and with one completed record has emitted, before done, the one delta
\* "Hello" when the record's first message entry carries the fragments
\* "Hel", a refusal and "lo", and no delta when that entry carries no text.
C15_ReconstructedText ==
  \A r \in Reqs :
    (Exhausted(r) /\ OnlyCompleted(r)) =>
      LET ls == allLines(r)
          c == CHOOSE i \in 1..Len(ls) : IsCompleted(ls[i])
      IN /\ deltasOf(out(r)) =
              IF recordOf(ls[c]).evt.response.output = OutputHello
              THEN <<DeltaEvt("Hello")>> ELSE <<>>
         /\ last(out(r)).type = "done"

\* One request reconstructed its text after an empty text delta, as the
\* unterminated trailing line or not.
C15_Witness ==
  \E r \in Reqs :
    /\ Exhausted(r) /\ OnlyCompleted(r)
    /\ Len(allLines(r)) = 2
    /\ deltasOf(out(r)) = <<DeltaEvt("Hello")>>

\* C16: a closed stream never has its timer armed: on the normal path, on
\* the two early exits and in the catch block the timer is cleared in the
\* step that closes the stream (or has fired and brought that step about),
\* and an armed timer belongs to a readable stream whose producer is
\* suspended at an await.
C16_TimerCancelled ==
  \A r \in Reqs :
    /\ stream[r] = "closed" => timeout[r] \in {"cleared", "fired"}
    /\ (stream[r] = "closed" /\ ~thrown[r]) => timeout[r] = "cleared"
    /\ timeout[r] = "fired" => (stream[r] = "closed" /\ thrown[r])
    /\ timeout[r] = "armed" => (stream[r] = "readable" /\ Awaiting(r))

\* Streams closed with the timer cleared on an early exit and in the catch
\* block after a read rejected.
C16_Witness ==
  \E r, q \in Reqs :
    /\ stream[r] = "closed" /\ upstream[r] = "no body" /\ timeout[r] = "cleared"
    /\ stream[q] = "closed" /\ upstream[q] = "ok" /\ thrown[q] /\ timeout[q] = "cleared"

\* The delta reconstructed from a completed record: of the records the
\* upstreams send, those with text all carry the output list OutputHello.
Reconstructed == DeltaEvt(extractFinalTextFromCompleted(Completed(Undefined, OutputHello)))

\* C17 as stated: no stream holds a reconstructed delta together with an
\* incremental delta, nor two reconstructed deltas.
C17_Original ==
  \A r \in Reqs :
    /\ countEvt(out(r), Reconstructed) <= 1
    /\ countEvt(out(r), Reconstructed) = 1 => countType(out(r), "delta") = 1

\* C17, amended: a reconstructed delta is never preceded by a delta on its
\* stream, so a completed record that follows any delta, incremental or
\* reconstructed, adds none; an incremental delta record that follows the
\* completed record is still emitted.
C17_ReconstructedOnlyFirst ==
  \A r \in Reqs :
    \A i \in 1..Len(out(r)) :
      out(r)[i] = Reconstructed =>
        \A j \in 1..(i - 1) : out(r)[j].type # "delta"

\* Two completed records with text were translated and the second added
\* no delta.
C17_Witness ==
  \E r \in Reqs :
    /\ stream[r] = "closed"
    /\ countType(out(r), "usage") = 2
    /\ deltasOf(out(r)) = <<Reconstructed>>

\* A line that carries nothing to translate: no marker, a blank payload,
\* the sentinel, or a JSON record of another type.
Nothing(line) ==
  \/ line = <<>> \/ Head(line) # Marker
  \/ trim(Tail(line)) \in {<<>>, <<Sentinel>>}
  \/ /\ JSONParse(trim(Tail(line))).ok
     /\ JSONParse(trim(Tail(line))).evt.type \notin {DeltaType, CompletedType}

\* The lines of every script.
ScriptLines == UNION {UpstreamLines(run.script) : run \in Runs}

\* C18: whatever a request has translated so far, a line that carries
\* nothing to translate leaves its events, its text-seen flag and its last
\* usage as they are, in the loop and as the trailing line; a request that
\* read to the end a body of such lines has emitted meta and done only.
C18_NothingToTranslate ==
  \A r \in Reqs :
    /\ \A line \in ScriptLines :
         Nothing(line) =>
           /\ processLine(bridge[r], line) = bridge[r]
           /\ processResidue([bridge[r] EXCEPT !.buf = line])
                = [bridge[r] EXCEPT !.buf = line]
    /\ (Exhausted(r) /\ \A i \in 1..Len(allLines(r)) : Nothing(allLines(r)[i])) =>
         /\ out(r) = startQueue(r) \o <<DoneEvt(Undefined)>>
         /\ ~bridge[r].sawAnyText /\ bridge[r].finalUsage = Undefined

\* A record of another type and a data line with a blank payload were read
\* to the end of the body.
C18_Witness ==
  \E r \in Reqs :
    /\ Exhausted(r)
    /\ bodyLines(r).lines = <<CreatedLine, EmptyDataLine>>
    /\ out(r) = startQueue(r) \o <<DoneEvt(Undefined)>>

\* C19: no delta event carries an empty or absent text; a text delta with
\* an empty text leaves the events and the text-seen flag as they are, and
\* a request that read to the end a body of such deltas followed by the
\* completed record has emitted the reconstructed delta.
C19_NonEmptyDelta ==
  \A r \in Reqs :
    /\ \A i \in 1..Len(out(r)) :
         out(r)[i].type = "delta" => out(r)[i].text \notin {"", Undefined}
    /\ processLine(bridge[r], EmptyDeltaLine) = bridge[r]
    /\ (/\ Exhausted(r) /\ Len(allLines(r)) >= 2
        /\ \A i \in 1..(Len(allLines(r)) - 1) : allLines(r)[i] = EmptyDeltaLine
        /\ allLines(r)[Len(allLines(r))] = CompletedLine) =>
         out(r) = startQueue(r) \o <<UsageEvt("U1"), Reconstructed, DoneEvt("U1")>>

\* An empty text delta was read and the completed record after it gave the
\* reconstructed delta.
C19_Witness ==
  \E r \in Reqs :
    /\ Exhausted(r)
    /\ bodyLines(r).lines = <<EmptyDeltaLine, CompletedLine>>
    /\ Reconstructed \in {out(r)[i] : i \in 1..Len(out(r))}

\* C20: the timer is armed once, from unset, and no step re-arms it; while
\* it is armed it can fire, however many chunks have been read; and the
\* step in which it fires closes the stream with the events emitted so far
\* kept in order, followed by one error event and done.
C20_TimerNotRearmed ==
  /\ [](\A r \in Reqs : timeout[r] = "armed" => ENABLED TimeoutFires(r))
  /\ [][\A r \in Reqs :
          /\ (timeout'[r] = "armed") => (timeout[r] \in {"unset", "armed"})
          /\ (timeout[r] = "armed" /\ timeout'[r] = "fired") =>
               /\ stream'[r] = "closed"
               /\ bridge'[r].out = out(r) \o <<ErrorEvt("Upstream exception"),
                                               DoneEvt(Undefined)>>]_vars

\* The timer fired after two deltas had been emitted.
C20_Witness ==
  \E r \in Reqs :
    /\ timeout[r] = "fired"
    /\ Len(out(r)) = 5
    /\ out(r)[2] = DeltaEvt("A") /\ out(r)[3] = DeltaEvt("B")
    /\ out(r)[4].type = "error"

\* C21: a completed record with usage U1 and text, handled when no text
\* has been seen, adds usage(U1) and then the reconstructed delta, in the
\* loop and as the trailing line alike; a request that read to the end a
\* body of that one record has emitted meta, usage(U1), delta, done(U1).
C21_UsageBeforeText ==
  \A r \in Reqs :
    /\ ~bridge[r].sawAnyText =>
         /\ processLine(bridge[r], CompletedLine).out
              = out(r) \o <<UsageEvt("U1"), Reconstructed>>
         /\ processResidue([bridge[r] EXCEPT !.buf = CompletedLine]).out
              = out(r) \o <<UsageEvt("U1"), Reconstructed>>
    /\ (Exhausted(r) /\ allLines(r) = <<CompletedLine>>) =>
         out(r) = startQueue(r) \o <<UsageEvt("U1"), Reconstructed, DoneEvt("U1")>>

\* The one completed record was translated by the loop for one request and
\* by the trailing flush for the other.
C21_Witness ==
  \E r, q \in Reqs :
    /\ Exhausted(r) /\ allLines(r) = <<CompletedLine>> /\ ~cut[r]
    /\ Exhausted(q) /\ allLines(q) = <<CompletedLine>> /\ cut[q]
    /\ out(q) = startQueue(q) \o <<UsageEvt("U1"), Reconstructed, DoneEvt("U1")>>

(***************************************************************************)
(* The browser client: App.send (part_000 77-193).  The response body it   *)
(* reads is one of the event streams the bridge writes, as the bytes emit  *)
(* encodes (index.ts 83-85): the JSON text of an event between braces and  *)
(* a newline.  The transport hands the bytes over in chunks of any size.   *)
(***************************************************************************)
MaxSends == 2

\* The text shown in an assistant message left empty by a failed request
\* (part_000 182-188).
Notice == "(request failed)"

\* JSON.stringify(evt) (index.ts 84), without its braces.
stringify(evt) ==
  evt.type \o ":" \o
    (CASE evt.type = "meta" -> evt.requestId \o "/" \o evt.model
       [] evt.type = "delta" -> evt.text
       [] evt.type = "usage" -> evt.usage
       [] evt.type = "error" -> evt.message
       [] evt.type = "done" -> evt.usage)

\* encoder.encode(JSON.stringify(evt) + "\n") (index.ts 84).
encode(evt) == <<LBrace, stringify(evt), RBrace, LF>>

RECURSIVE bytesOf(_)
bytesOf(queue) ==
  IF queue = <<>> THEN <<>> ELSE encode(Head(queue)) \o bytesOf(Tail(queue))

\* The queue of a request of this client after emit meta (index.ts 122).
Queue0 == emit(<<>>, MetaEvt("req-1", DefaultModel))

\* The streams served: two deltas and the completed record; a malformed
\* line and a delta; a non-success upstream; a delta and then an upstream
\* exception; and, from a relay that writes on after done, a delta, done
\* and one more delta.
ServerStreams ==
  { oneChunk(Queue0, TwoDeltas \o <<LF>> \o CompletedLine \o <<LF>>).out,
    oneChunk(Queue0, BadLine \o <<LF>> \o DeltaLine \o <<LF>>).out,
    earlyExit(NewBridge(Queue0), "OpenAI error").out,
    catchException(processText(NewBridge(Queue0), DeltaLine \o <<LF>>)).out,
    oneChunk(Queue0, DeltaLine \o <<LF>>).out \o <<DeltaEvt("B")>> }

KnownEvents == UNION {{q[i] : i \in 1..Len(q)} : q \in ServerStreams}

\* JSON.parse(line) in the client (part_000 151-156).
parseLine(line) ==
  IF /\ Len(line) = 3 /\ line[1] = LBrace /\ line[3] = RBrace
     /\ \E e \in KnownEvents : stringify(e) = line[2]
  THEN [ok |-> TRUE, evt |-> CHOOSE e \in KnownEvents : stringify(e) = line[2]]
  ELSE [ok |-> FALSE, evt |-> DoneEvt(Undefined)]

\* An append that puts the new text in front.
prependText(content, text) == text \o content

\* part_000 166: m.content + text.
appendText(content, text) == content \o text

\* The branches on evt.type (part_000 158-176).
applyEvt(a, evt) ==
  CASE evt.type = "meta" ->
         [a EXCEPT !.meta = [requestId |-> evt.requestId, model |-> evt.model]]
    [] evt.type = "delta" ->
         IF evt.text = "" THEN a
         ELSE [a EXCEPT !.messages[Len(a.messages)] = appendText(@, evt.text)]
    [] evt.type = "usage" -> [a EXCEPT !.usage = evt.usage]
    [] evt.type = "error" ->
         [a EXCEPT !.error = IF evt.message = "" THEN "Unknown error" ELSE evt.message]
    [] evt.type = "done" ->
         [a EXCEPT !.usage = IF evt.usage # Undefined THEN evt.usage ELSE @,
                   !.status = "Done"]

\* The `for (const raw of lines)` loop (part_000 147-177): st holds the
\* React state and the events applied.
RECURSIVE applyLines(_, _)
applyLines(st, ls) ==
  IF ls = <<>> THEN st
  ELSE LET line == trim(Head(ls))
           p == parseLine(line)
       IN IF line = <<>> \/ ~p.ok THEN applyLines(st, Tail(ls))
          ELSE applyLines([app |-> applyEvt(st.app, p.evt),
                           applied |-> Append(st.applied, p.evt)], Tail(ls))

\* part_000 190-193: finally.
finally(a) == [a EXCEPT !.busy = FALSE, !.readyTimer = TRUE]

\* part_000 179-193: catch, then finally.
catchFinally(a, message) ==
  finally([a EXCEPT !.error = message, !.status = "Error",
                    !.messages = [i \in DOMAIN @ |-> IF @[i] = "" THEN Notice ELSE @[i]]])

\* send() returns: its locals are gone.
Return(how) ==
  call' = [call EXCEPT !.pc = "idle", !.buf = <<>>, !.pending = <<>>, !.exit = how]

\* part_000 48-51.
canSend(prompt) == ~app.busy /\ trim(prompt) # <<>>

\* part_000 77-100: send() up to its first await.
send ==
  /\ call.sends < MaxSends
  /\ \E prompt \in {<<SP>>, <<"hi">>} : canSend(prompt)
  /\ app' = [app EXCEPT !.busy = TRUE, !.error = "", !.usage = "null",
                        !.meta = [requestId |-> Undefined, model |-> Undefined],
                        !.status = "Starting", !.messages = Append(@, "")]
  /\ call' = [pc |-> "graphql", buf |-> <<>>, pending |-> <<>>,
              sends |-> call.sends + 1, exit |-> "none"]
  /\ res' = NoRes
  /\ applied' = <<>>
  /\ UNCHANGED vars

\* await fetch("/api/graphql") resolves (part_000 100-107).
GraphqlFetchResolves ==
  /\ call.pc = "graphql"
  /\ call' = [call EXCEPT !.pc = "json"]
  /\ UNCHANGED << app, res, applied >>
  /\ UNCHANGED vars

\* await gqlRes.json() resolves, with a requestId or without (108-116).
GraphqlJsonResolves ==
  /\ call.pc = "json"
  /\ \E requestId \in {Undefined, "req-1"} :
       IF requestId = Undefined
       THEN /\ app' = catchFinally(app, "GraphQL startChat failed")
            /\ Return("thrown")
       ELSE /\ app' = [app EXCEPT !.meta.requestId = requestId, !.status = "Streaming"]
            /\ call' = [call EXCEPT !.pc = "fetch"]
  /\ UNCHANGED << res, applied >>
  /\ UNCHANGED vars

\* await fetch("/api/chat/stream") resolves (part_000 119-137): with one of
\* the streams, whole or cut before its last newline, or with a 400 or 500.
ChatFetchResolves ==
  /\ call.pc = "fetch"
  /\ \/ \E q \in ServerStreams, whole \in BOOLEAN :
          /\ res' = [ok |-> TRUE, got |-> <<>>,
                     body |-> IF whole THEN bytesOf(q)
                              ELSE SubSeq(bytesOf(q), 1, Len(bytesOf(q)) - 1)]
          /\ call' = [call EXCEPT !.pc = "read"]
     \/ /\ res' = [ok |-> FALSE, got |-> <<>>, body |-> <<>>]
        /\ call' = [call EXCEPT !.pc = "text"]
  /\ UNCHANGED << app, applied >>
  /\ UNCHANGED vars

\* await res.text() resolves and send() throws (part_000 126-129).
ErrorTextResolves ==
  /\ call.pc = "text"
  /\ app' = catchFinally(app, "HTTP error")
  /\ Return("thrown")
  /\ UNCHANGED << res, applied >>
  /\ UNCHANGED vars

\* await reader.read() resolves with a chunk (part_000 139-177).
ReaderReadChunk ==
  /\ call.pc = "read"
  /\ \E k \in 1..Len(res.body) :
       LET value == SubSeq(res.body, 1, k)
           d == decode(value, call.pending)
           parts == split(call.buf \o d.text)
           st == applyLines([app |-> app, applied |-> applied],
                            SubSeq(parts, 1, Len(parts) - 1))
       IN /\ res' = [res EXCEPT !.body = SubSeq(@, k + 1, Len(@)), !.got = @ \o value]
          /\ call' = [call EXCEPT !.buf = parts[Len(parts)], !.pending = d.pending]
          /\ app' = st.app
          /\ applied' = st.applied
  /\ UNCHANGED vars

\* await reader.read() resolves with done: the loop ends (part_000 141).
ReaderReadDone ==
  /\ call.pc = "read"
  /\ res.body = <<>>
  /\ app' = finally(app)
  /\ Return("closed")
  /\ UNCHANGED << res, applied >>
  /\ UNCHANGED vars

\* Any await of send() rejects (part_000 179-193).
AwaitRejects ==
  /\ call.pc \in {"graphql", "json", "fetch", "text", "read"}
  /\ app' = catchFinally(app, "Failed to fetch")
  /\ Return("thrown")
  /\ UNCHANGED << res, applied >>
  /\ UNCHANGED vars

\* The timer of finally fires (part_000 192).
StatusTimerFires ==
  /\ app.readyTimer
  /\ app' = [app EXCEPT !.status = "Ready", !.readyTimer = FALSE]
  /\ UNCHANGED << call, res, applied >>
  /\ UNCHANGED vars

ClientNext ==
  \/ send
  \/ GraphqlFetchResolves
  \/ GraphqlJsonResolves
  \/ ChatFetchResolves
  \/ ErrorTextResolves
  \/ ReaderReadChunk
  \/ ReaderReadDone
  \/ AwaitRejects
  \/ StatusTimerFires

ClientInit == Init /\ env = DefaultModelEnv /\ script = "text"

ClientSpec == ClientInit /\ [][ClientNext]_clientVars

\* The events of the complete lines among the bytes read so far.
received ==
  LET ls == splitLines(decode(res.got, <<>>).text, <<>>).lines
      ok == SelectSeq(ls, LAMBDA line : parseLine(trim(line)).ok)
  IN [i \in 1..Len(ok) |-> parseLine(trim(ok[i])).evt]

\* The delta texts of a sequence of events, joined in order.
RECURSIVE concatTexts(_)
concatTexts(events) ==
  IF events = <<>> THEN ""
  ELSE (IF Head(events).type = "delta" THEN Head(events).text ELSE "")
         \o concatTexts(Tail(events))

\* The content of the assistant message of the send() in progress or last
\* made.
content == app.messages[Len(app.messages)]

\* C22 as stated: the client has applied every event received as a complete
\* line, those after a done or error event included; send() returns on
\* closure only once every byte was read; once the stream is being read
\* the assistant content is the concatenation of the delta texts received;
\* busy is set exactly while send() is in progress.
C22_Original ==
  /\ applied = received
  /\ call.exit = "closed" => res.body = <<>>
  /\ res.ok => content = concatTexts(received)
  /\ app.busy <=> call.pc # "idle"

\* C22, amended: as stated, except that when send() ends by a thrown error
\* before any delta text was received the assistant content is the failure
\* notice instead of the empty concatenation.
C22_ClientReadsToClosure ==
  /\ applied = received
  /\ call.exit = "closed" => res.body = <<>>
  /\ call.sends > 0 =>
       content = IF call.exit = "thrown" /\ concatTexts(received) = ""
                 THEN Notice ELSE concatTexts(received)
  /\ app.busy <=> call.pc # "idle"

\* The stream was read to closure, a delta that came after done was applied
\* and busy is reset.
C22_Witness ==
  /\ call.exit = "closed" /\ ~app.busy
  /\ Len(applied) = 4 /\ applied[3].type = "done" /\ applied[4] = DeltaEvt("B")
  /\ content = "AB"

====
